---- MODULE Spec2Model ----
(***************************************************************************)
(* PreviewManager of vscode-svg-previewer (src/features/previewManager.ts) *)
(* as a state machine: the tracked previews, the active preview, the       *)
(* svgPreviewFocus context key, the previews' own fields, the host's       *)
(* active text editor, and the creations and revivals that are awaiting    *)
(* Preview.create / Preview.revive.  The setting svg.preview.autoOpen is   *)
(* an input of the handlers that read it.                                  *)
(***************************************************************************)
EXTENDS Integers, Sequences, FiniteSets

\* ---------------------------------------------------------------- bounds
\* Number of Preview objects constructed, or asked for and not yet constructed.
MaxPreviews == 2

\* ------------------------------------------------------------- constants
\* vscode.ViewColumn.Active and vscode.ViewColumn.Beside
Active == -1
Beside == -2
\* `undefined` for a Preview reference (_activePreview?: Preview, find(...) === undefined)
NoPreview == 0
\* `undefined` for a URI argument (preview.update() with no argument)
NoUri == ""

Ids == 1..MaxPreviews
\* The documents of the workspace: two SVG files and a text file
Uris == {"file:/a.svg", "file:/b.svg", "file:/n.txt"}
\* Uri.fsPath: the path of the URI, without scheme
fsPath(u) ==
    CASE u = "file:/a.svg" -> "/a.svg"
      [] u = "file:/b.svg" -> "/b.svg"
      [] u = "file:/n.txt" -> "/n.txt"
      [] OTHER -> ""
\* isSvgUri of ../utils: the previewable-document predicate
isSvgUri(u) == fsPath(u) \in {"/a.svg", "/b.svg"}
\* The documents a preview is asked for (shown, or restored from its saved state)
SvgUris == {u \in Uris : isSvgUri(u)}

\* vscode.window.activeTextEditor: undefined, or an editor on a document in a column
NoEditor == [uri |-> NoUri, viewColumn |-> 0]
\* Between events the manager reads only activeTextEditor.viewColumn (lines 116-117);
\* the document of the active editor reaches it as the argument of the event.
ColumnOf(editor) == [uri |-> NoUri, viewColumn |-> editor.viewColumn]
\* The columns an editor is in; a panel beside one is one column further (line 121).
EditorColumns == {1}
PanelColumnsOfHost == EditorColumns \cup {c + 1 : c \in EditorColumns}
Editors == [uri : Uris, viewColumn : EditorColumns]
\* The columns showPreview is asked for: the two tokens, or a column by its number
ViewColumns == {Active, Beside} \cup EditorColumns

VARIABLES
    previews,          \* _previews: sequence of preview ids, in push order
    activePreview,     \* _activePreview: a preview id or NoPreview
    focusFlag,         \* the svgPreviewFocus context key
    subscribed,        \* _disposables still registered with the host (not yet disposed)
    pstate,            \* per Preview object: "unborn", "creating", "reviving", "live", "disposed"
    source,            \* Preview.source
    column,            \* Preview.panel.viewColumn
    request,           \* per pending creation or revival: who asked for it and for which column
    activeTextEditor,  \* vscode.window.activeTextEditor: what the manager reads of it between events
    last               \* what the last handler invocation did (observation only)

vars == <<previews, activePreview, focusFlag, subscribed, pstate, source, column,
          request, activeTextEditor, last>>

\* ------------------------------------------------------- array primitives
\* Array.prototype.indexOf: 0-based index of the first element identical to x, or -1
indexOf(s, x) ==
    IF \E i \in 1..Len(s) : s[i] = x
    THEN (CHOOSE i \in 1..Len(s) : s[i] = x /\ \A j \in 1..(i - 1) : s[j] # x) - 1
    ELSE -1

\* Array.prototype.splice(start, deleteCount) with no inserted items:
\* a negative start counts from the end of the array
splice(s, start, deleteCount) ==
    LET len == Len(s)
        rs == IF start < 0
              THEN (IF len + start > 0 THEN len + start ELSE 0)
              ELSE (IF start < len THEN start ELSE len)
        dc0 == IF deleteCount > 0 THEN deleteCount ELSE 0
        dc == IF dc0 < len - rs THEN dc0 ELSE len - rs
    IN  [i \in 1..(len - dc) |-> IF i <= rs THEN s[i] ELSE s[i + dc]]

\* Array.prototype.find over _previews, the predicate given as the set S of the
\* previews that satisfy it: the first element of s in S, or NoPreview
findFirst(s, S) ==
    IF \E i \in 1..Len(s) : s[i] \in S
    THEN s[CHOOSE i \in 1..Len(s) : s[i] \in S /\ \A j \in 1..(i - 1) : s[j] \notin S]
    ELSE NoPreview

Range(s) == {s[i] : i \in 1..Len(s)}

\* ---------------------------------------------------- the manager's fields
\* The three fields the focus and registration code assigns, as one value.
Mgr == [previews |-> previews, activePreview |-> activePreview, focusFlag |-> focusFlag]

SetMgr(m) ==
    /\ previews' = m.previews
    /\ activePreview' = m.activePreview
    /\ focusFlag' = m.focusFlag

\* setSvgPreviewFocusContext(value): publishes the context key
setSvgPreviewFocusContext(m, value) == [m EXCEPT !.focusFlag = value]

onPreviewFocus(m, p) ==
    setSvgPreviewFocusContext([m EXCEPT !.activePreview = p], TRUE)

\* (mutant) the blur that forgets to publish the context key
onPreviewBlurKeepsFlag(m) ==
    [m EXCEPT !.activePreview = NoPreview]

onPreviewBlur(m) ==
    setSvgPreviewFocusContext([m EXCEPT !.activePreview = NoPreview], FALSE)

\* (mutant) the disposal callback that removes by source URI instead of by identity
onDisposeCallbackByUri(m, p) ==
    LET b == onPreviewBlur(m)
        OtherSource(q) == source[q] # source[p]
    IN  [b EXCEPT !.previews = SelectSeq(b.previews, OtherSource)]

\* the callback registerPreview hands to preview.onDispose
onDisposeCallback(m, p) ==
    LET b == onPreviewBlur(m)
    IN  [b EXCEPT !.previews = splice(b.previews, indexOf(b.previews, p), 1)]

\* (mutant) the view-state callback that clears the focus only when the preview
\* reporting inactive is the one that holds it
onViewStateCallbackOwnBlur(m, p, panelActive) ==
    IF panelActive THEN onPreviewFocus(m, p)
    ELSE IF m.activePreview = p THEN onPreviewBlur(m) ELSE m

\* the callback registerPreview hands to preview.onDidChangeViewState
onViewStateCallback(m, p, panelActive) ==
    IF panelActive THEN onPreviewFocus(m, p) ELSE onPreviewBlur(m)

\* (mutant) the registration that leaves the focus with the preview that holds it
registerPreviewKeepsFocus(m, p) ==
    LET pushed == [m EXCEPT !.previews = Append(m.previews, p)]
    IN  IF m.activePreview = NoPreview THEN onPreviewFocus(pushed, p) ELSE pushed

\* registerPreview: push, focus (the two subscriptions are the callbacks above)
registerPreview(m, p) ==
    onPreviewFocus([m EXCEPT !.previews = Append(m.previews, p)], p)

\* ------------------------------------------------------------- lookups
\* (mutant) the lookup that searches the active column whatever column is requested
getPreviewOnActiveColumn(prevs, col, editor, viewColumn) ==
    LET activeViewColumn == IF editor # NoEditor THEN editor.viewColumn ELSE Active
        OnActive == {p \in Ids : col[p] = activeViewColumn}
    IN  findFirst(prevs, OnActive)

getPreviewOnTargetColumn(prevs, col, editor, viewColumn) ==
    LET activeViewColumn == IF editor # NoEditor THEN editor.viewColumn ELSE Active
        OnActive == {p \in Ids : col[p] = activeViewColumn}
        OnNext == {p \in Ids : col[p] = activeViewColumn + 1}
    IN  IF viewColumn = Active
        THEN findFirst(prevs, OnActive)
        ELSE findFirst(prevs, OnNext)

\* (mutant) the lookup that returns the last matching preview instead of the first
getLastPreviewOf(prevs, src, resource) ==
    LET SamePath == {p \in Ids : fsPath(src[p]) = fsPath(resource)}
        Rev == [i \in 1..Len(prevs) |-> prevs[Len(prevs) + 1 - i]]
    IN  findFirst(Rev, SamePath)

getPreviewOf(prevs, src, resource) ==
    LET SamePath == {p \in Ids : fsPath(src[p]) = fsPath(resource)}
    IN  findFirst(prevs, SamePath)

isActivePreviewUri(act, src, uri) ==
    act # NoPreview /\ src[act] = uri

\* (mutant) the auto-open predicate with the negation of the last conjunct lost
shouldAutoOpenWhenPreviewed(prevs, src, isAutoOpen, editor) ==
    isAutoOpen /\ isSvgUri(editor.uri) /\ getPreviewOf(prevs, src, editor.uri) # NoPreview

shouldAutoOpenPreviewForEditor(prevs, src, isAutoOpen, editor) ==
    isAutoOpen /\ isSvgUri(editor.uri) /\ getPreviewOf(prevs, src, editor.uri) = NoPreview


\* ------------------------------------------------ the Preview collaborator
\* Preview.update(uri?): re-render, against a new source when a URI is given
update(src, p, uri) ==
    IF uri = NoUri THEN src ELSE [src EXCEPT ![p] = uri]

\* The column the host gives a new panel asked for with `viewColumn`
PanelColumns(editor, viewColumn) ==
    IF viewColumn \notin {Active, Beside} THEN {viewColumn}
    ELSE IF editor = NoEditor THEN EditorColumns
    ELSE IF viewColumn = Active THEN {editor.viewColumn}
    ELSE {editor.viewColumn + 1}

\* Preview.dispose(): fires the preview's onDispose notification, once
previewDispose(mp, p) ==
    IF mp.pstate[p] = "live"
    THEN [m |-> onDisposeCallback(mp.m, p), pstate |-> [mp.pstate EXCEPT ![p] = "disposed"]]
    ELSE mp

\* The fields of the Preview objects that exist (pending or live) in the states ps;
\* a disposed Preview object, or one whose construction failed, has none.
Existing(ps, f, none) ==
    [p \in Ids |-> IF ps[p] \in {"creating", "reviving", "live"} THEN f[p] ELSE none]

\* ----------------------------------------------------------- observation
NoRequest == [who |-> "", viewColumn |-> 0]

Obs(op, p, viewColumn, uri, who, started, telemetry, updated, revealed) ==
    [op |-> op, preview |-> p, viewColumn |-> viewColumn, uri |-> uri, who |-> who,
     started |-> started, telemetry |-> telemetry, updated |-> updated,
     revealed |-> revealed, isAutoOpen |-> FALSE, outcome |-> ""]

\* ... of a handler that read the configuration svg.preview.autoOpen as isAutoOpen
ObsAuto(o, isAutoOpen) == [o EXCEPT !.isAutoOpen = isAutoOpen]

\* The next Preview object to be constructed, or NoPreview when the bound is reached
NextId ==
    IF \E i \in Ids : pstate[i] = "unborn"
    THEN CHOOSE i \in Ids : pstate[i] = "unborn" /\ \A j \in 1..(i - 1) : pstate[j] # "unborn"
    ELSE NoPreview

\* ------------------------------------------------------------ construction
\* The state the constructor leaves: both subscriptions registered, and the
\* auto-open check on the editor that is active at activation.
Construct(ed, auto) ==
    LET empty == <<>>
        src0 == [p \in Ids |-> NoUri]
        col0 == [p \in Ids |-> 0]
        open == ed # NoEditor /\ shouldAutoOpenPreviewForEditor(empty, src0, auto, ed)
        found == IF open THEN getPreviewOnTargetColumn(empty, col0, ed, Beside) ELSE NoPreview
        create == open /\ found = NoPreview
    IN  /\ previews = empty
        /\ activePreview = NoPreview
        /\ focusFlag = FALSE
        /\ subscribed = TRUE
        /\ activeTextEditor = ColumnOf(ed)
        /\ pstate = [p \in Ids |-> IF create /\ p = 1 THEN "creating" ELSE "unborn"]
        /\ source = [p \in Ids |-> IF create /\ p = 1 THEN ed.uri ELSE NoUri]
        /\ column = [p \in Ids |-> IF create /\ p = 1 THEN ed.viewColumn + 1 ELSE 0]
        /\ request = [p \in Ids |-> IF create /\ p = 1
                                    THEN [who |-> "ctor", viewColumn |-> Beside]
                                    ELSE NoRequest]
        /\ last = ObsAuto(Obs("construct", NoPreview, IF open THEN Beside ELSE 0,
                              ed.uri, IF open THEN "ctor" ELSE "",
                              IF create THEN 1 ELSE NoPreview, IF open THEN 1 ELSE 0, {},
                              NoPreview),
                          ed # NoEditor /\ auto)

Init == \E ed \in Editors \cup {NoEditor}, auto \in BOOLEAN : Construct(ed, auto)

\* ------------------------------------------------------------- showPreview
\* The synchronous part of showPreview(uri, viewColumn), run with the sources
\* src0 and the active editor ed: reuse the preview on the target column
\* (update, reveal), or start Preview.create and await it.
ShowPreviewBody(ed, src0, uri, viewColumn, who, op, telemetry, upd0, isAutoOpen) ==
    LET f == getPreviewOnTargetColumn(previews, column, ed, viewColumn)
        id == NextId
    IN  /\ UNCHANGED <<previews, activePreview, focusFlag, subscribed>>
        /\ IF f # NoPreview
           THEN /\ source' = update(src0, f, uri)
                /\ UNCHANGED <<pstate, column, request>>
                /\ last' = ObsAuto(Obs(op, f, viewColumn, uri, who, NoPreview, telemetry,
                                       upd0 \cup {<<f, uri>>}, f), isAutoOpen)
           ELSE /\ id # NoPreview
                /\ \E c \in PanelColumns(ed, viewColumn) :
                       column' = [column EXCEPT ![id] = c]
                /\ pstate' = [pstate EXCEPT ![id] = "creating"]
                /\ source' = [src0 EXCEPT ![id] = uri]
                /\ request' = [request EXCEPT ![id] = [who |-> who, viewColumn |-> viewColumn]]
                /\ last' = ObsAuto(Obs(op, NoPreview, viewColumn, uri, who, id, telemetry,
                                       upd0, NoPreview), isAutoOpen)

ShowPreview(uri, viewColumn) ==
    /\ subscribed
    /\ ShowPreviewBody(activeTextEditor, source, uri, viewColumn, "show", "showPreview", 0, {}, FALSE)
    /\ UNCHANGED activeTextEditor

\* (mutant) the continuation that drops the created preview when the manager has
\* been disposed in the meantime
CreateResolvedUnlessDisposed(p) ==
    /\ pstate[p] = "creating"
    /\ IF subscribed
       THEN /\ SetMgr(registerPreview(Mgr, p))
            /\ pstate' = [pstate EXCEPT ![p] = "live"]
            /\ source' = update(source, p, source[p])
            /\ column' = column
            /\ last' = Obs("createResolved", p, request[p].viewColumn, source[p],
                           request[p].who, NoPreview, 0, {<<p, source[p]>>}, p)
       ELSE /\ pstate' = [pstate EXCEPT ![p] = "disposed"]
            /\ source' = Existing(pstate', source, NoUri)
            /\ column' = Existing(pstate', column, 0)
            /\ last' = Obs("createAbandoned", p, request[p].viewColumn, source[p],
                           request[p].who, NoPreview, 0, {}, NoPreview)
            /\ UNCHANGED <<previews, activePreview, focusFlag>>
    /\ request' = [request EXCEPT ![p] = NoRequest]
    /\ UNCHANGED <<subscribed, activeTextEditor>>

\* Preview.create resolves: createPreview registers the preview, then showPreview
\* updates and reveals it.
CreateResolved(p) ==
    /\ pstate[p] = "creating"
    /\ SetMgr(registerPreview(Mgr, p))
    /\ pstate' = [pstate EXCEPT ![p] = "live"]
    /\ source' = update(source, p, source[p])
    /\ request' = [request EXCEPT ![p] = NoRequest]
    /\ last' = Obs("createResolved", p, request[p].viewColumn, source[p], request[p].who,
                   NoPreview, 0, {<<p, source[p]>>}, p)
    /\ UNCHANGED <<subscribed, column, activeTextEditor>>

\* (mutant) createPreview that registers the preview before the creation has succeeded
CreateRejectedAfterRegister(p) ==
    /\ pstate[p] = "creating"
    /\ SetMgr(registerPreview(Mgr, p))
    /\ pstate' = [pstate EXCEPT ![p] = "live"]
    /\ request' = [request EXCEPT ![p] = NoRequest]
    /\ last' = Obs("createRejected", p, request[p].viewColumn, source[p], request[p].who,
                   NoPreview, 0, {}, NoPreview)
    /\ UNCHANGED <<subscribed, source, column, activeTextEditor>>

\* Preview.create rejects: the await in createPreview throws, nothing is registered
CreateRejected(p) ==
    /\ pstate[p] = "creating"
    /\ pstate' = [pstate EXCEPT ![p] = "unborn"]
    /\ request' = [request EXCEPT ![p] = NoRequest]
    /\ last' = Obs("createRejected", p, request[p].viewColumn, source[p], request[p].who,
                   NoPreview, 0, {}, NoPreview)
    /\ source' = Existing(pstate', source, NoUri)
    /\ column' = Existing(pstate', column, 0)
    /\ UNCHANGED <<previews, activePreview, focusFlag, subscribed, activeTextEditor>>

\* ------------------------------------------------- deserializeWebviewPanel
DeserializeWebviewPanel(uri, c) ==
    /\ subscribed
    /\ NextId # NoPreview
    /\ pstate' = [pstate EXCEPT ![NextId] = "reviving"]
    /\ source' = [source EXCEPT ![NextId] = uri]
    /\ column' = [column EXCEPT ![NextId] = c]
    /\ request' = [request EXCEPT ![NextId] = [who |-> "restore", viewColumn |-> c]]
    /\ last' = Obs("deserialize", NoPreview, c, uri, "restore", NextId, 0, {}, NoPreview)
    /\ UNCHANGED <<previews, activePreview, focusFlag, subscribed, activeTextEditor>>

ReviveResolved(p) ==
    /\ pstate[p] = "reviving"
    /\ SetMgr(registerPreview(Mgr, p))
    /\ pstate' = [pstate EXCEPT ![p] = "live"]
    /\ source' = update(source, p, NoUri)
    /\ request' = [request EXCEPT ![p] = NoRequest]
    /\ last' = Obs("reviveResolved", p, request[p].viewColumn, source[p], "restore",
                   NoPreview, 0, {<<p, NoUri>>}, NoPreview)
    /\ UNCHANGED <<subscribed, column, activeTextEditor>>

ReviveRejected(p) ==
    /\ pstate[p] = "reviving"
    /\ pstate' = [pstate EXCEPT ![p] = "unborn"]
    /\ request' = [request EXCEPT ![p] = NoRequest]
    /\ last' = Obs("reviveRejected", p, request[p].viewColumn, source[p], "restore",
                   NoPreview, 0, {}, NoPreview)
    /\ source' = Existing(pstate', source, NoUri)
    /\ column' = Existing(pstate', column, 0)
    /\ UNCHANGED <<previews, activePreview, focusFlag, subscribed, activeTextEditor>>

\* ------------------------------------------ notifications from a preview
\* The host closes the panel of a live preview: its onDispose notification fires.
PreviewDisposed(p) ==
    /\ pstate[p] = "live"
    /\ SetMgr(onDisposeCallback(Mgr, p))
    /\ pstate' = [pstate EXCEPT ![p] = "disposed"]
    /\ source' = Existing(pstate', source, NoUri)
    /\ column' = Existing(pstate', column, 0)
    /\ last' = Obs("previewDisposed", p, column[p], source[p], "", NoPreview, 0, {}, NoPreview)
    /\ UNCHANGED <<subscribed, request, activeTextEditor>>

\* The onDispose notification of an already disposed preview fires once more.
PreviewDisposedAgain(p) ==
    /\ pstate[p] = "disposed"
    /\ SetMgr(onDisposeCallback(Mgr, p))
    /\ last' = Obs("previewDisposedAgain", p, column[p], source[p], "", NoPreview, 0, {}, NoPreview)
    /\ UNCHANGED <<subscribed, pstate, source, column, request, activeTextEditor>>

\* onDidChangeViewState of a live preview, its panel reporting active or not
ViewStateChanged(p, panelActive) ==
    /\ pstate[p] = "live"
    /\ SetMgr(onViewStateCallback(Mgr, p, panelActive))
    /\ last' = Obs(IF panelActive THEN "viewActive" ELSE "viewInactive", p, column[p],
                   source[p], "", NoPreview, 0, {}, NoPreview)
    /\ UNCHANGED <<subscribed, pstate, source, column, request, activeTextEditor>>

\* ---------------------------------------------------------- host events
onDidChangeTextDocument(uri) ==
    LET p == getPreviewOf(previews, source, uri)
    IN  /\ subscribed
        /\ source' = IF p # NoPreview THEN update(source, p, NoUri) ELSE source
        /\ last' = Obs("documentChanged", p, 0, uri, "", NoPreview, 0,
                       IF p # NoPreview THEN {<<p, NoUri>>} ELSE {}, NoPreview)
        /\ UNCHANGED <<previews, activePreview, focusFlag, subscribed, pstate, column,
                       request, activeTextEditor>>

\* (mutant) the forEach that updates only the previews already showing that document
updateAllOfSameSource(prevs, src, uri) ==
    [p \in Ids |-> IF p \in Range(prevs) /\ fsPath(src[p]) = fsPath(uri)
                   THEN update(src, p, uri)[p] ELSE src[p]]

\* the forEach of onDidChangeActiveTextEditor: every tracked preview is updated with uri
updateAll(prevs, src, uri) ==
    [p \in Ids |-> IF p \in Range(prevs) THEN update(src, p, uri)[p] ELSE src[p]]

\* (mutant) the handler with the auto-open check made on the sources as they were
\* when the event arrived, not as the broadcast update left them
onDidChangeActiveTextEditorAutoOpenFirst(ed, isAutoOpen) ==
    LET broadcast == /\ ed # NoEditor
                     /\ isSvgUri(ed.uri)
                     /\ ~isActivePreviewUri(activePreview, source, ed.uri)
        src1 == IF broadcast THEN updateAll(previews, source, ed.uri) ELSE source
        upd == IF broadcast THEN {<<p, ed.uri>> : p \in Range(previews)} ELSE {}
    IN  /\ subscribed
        /\ activeTextEditor' = ColumnOf(ed)
        /\ IF ed = NoEditor
           THEN /\ last' = Obs("editorChanged", NoPreview, 0, NoUri, "", NoPreview, 0, {}, NoPreview)
                /\ UNCHANGED <<previews, activePreview, focusFlag, subscribed, pstate,
                               source, column, request>>
           ELSE IF shouldAutoOpenPreviewForEditor(previews, source, isAutoOpen, ed)
           THEN ShowPreviewBody(ed, src1, ed.uri, Beside, "show", "editorChanged", 1, upd,
                                isAutoOpen)
           ELSE /\ source' = src1
                /\ last' = ObsAuto(Obs("editorChanged", NoPreview, 0, ed.uri, "", NoPreview,
                                       0, upd, NoPreview), isAutoOpen)
                /\ UNCHANGED <<previews, activePreview, focusFlag, subscribed, pstate,
                               column, request>>

\* (mutant) the handler that clears the focus when no editor is active
onDidChangeActiveTextEditorBlursOnNone(ed, isAutoOpen) ==
    LET broadcast == /\ ed # NoEditor
                     /\ isSvgUri(ed.uri)
                     /\ ~isActivePreviewUri(activePreview, source, ed.uri)
        src1 == IF broadcast THEN updateAll(previews, source, ed.uri) ELSE source
        upd == IF broadcast THEN {<<p, ed.uri>> : p \in Range(previews)} ELSE {}
    IN  /\ subscribed
        /\ activeTextEditor' = ColumnOf(ed)
        /\ IF ed = NoEditor
           THEN /\ last' = Obs("editorChanged", NoPreview, 0, NoUri, "", NoPreview, 0, {}, NoPreview)
                /\ SetMgr(onPreviewBlur(Mgr))
                /\ UNCHANGED <<subscribed, pstate, source, column, request>>
           ELSE IF shouldAutoOpenPreviewForEditor(previews, src1, isAutoOpen, ed)
           THEN ShowPreviewBody(ed, src1, ed.uri, Beside, "show", "editorChanged", 1, upd,
                                isAutoOpen)
           ELSE /\ source' = src1
                /\ last' = ObsAuto(Obs("editorChanged", NoPreview, 0, ed.uri, "", NoPreview,
                                       0, upd, NoPreview), isAutoOpen)
                /\ UNCHANGED <<previews, activePreview, focusFlag, subscribed, pstate,
                               column, request>>

\* The host makes ed (an editor, or none) the active text editor and fires the event;
\* isAutoOpen is what the configuration svg.preview.autoOpen holds when the handler
\* reads it (the user may change the setting between any two events).
onDidChangeActiveTextEditor(ed, isAutoOpen) ==
    LET broadcast == /\ ed # NoEditor
                     /\ isSvgUri(ed.uri)
                     /\ ~isActivePreviewUri(activePreview, source, ed.uri)
        src1 == IF broadcast THEN updateAll(previews, source, ed.uri) ELSE source
        upd == IF broadcast THEN {<<p, ed.uri>> : p \in Range(previews)} ELSE {}
    IN  /\ subscribed
        /\ activeTextEditor' = ColumnOf(ed)
        /\ IF ed = NoEditor
           THEN /\ last' = Obs("editorChanged", NoPreview, 0, NoUri, "", NoPreview, 0, {}, NoPreview)
                /\ UNCHANGED <<previews, activePreview, focusFlag, subscribed, pstate,
                               source, column, request>>
           ELSE IF shouldAutoOpenPreviewForEditor(previews, src1, isAutoOpen, ed)
           THEN ShowPreviewBody(ed, src1, ed.uri, Beside, "show", "editorChanged", 1, upd,
                                isAutoOpen)
           ELSE /\ source' = src1
                /\ last' = ObsAuto(Obs("editorChanged", NoPreview, 0, ed.uri, "", NoPreview,
                                       0, upd, NoPreview), isAutoOpen)
                /\ UNCHANGED <<previews, activePreview, focusFlag, subscribed, pstate,
                               column, request>>

\* -------------------------------------------------------------- showSource
\* (mutant) showSource with a guard in front of the property read: an undefined
\* source reaches openTextDocument, whose promise rejects
showSourceAlwaysOpens(act) == "openTextDocument"

\* How far showSource gets: `this._activePreview!.source` is evaluated before the
\* call it is the argument of (the `!` is erased at compile time), so with no active
\* preview the property read throws a TypeError and openTextDocument is never called.
showSourceOutcome(act) ==
    IF act = NoPreview THEN "TypeError" ELSE "openTextDocument"

\* The command "show source": showSource()
ShowSource ==
    LET outcome == showSourceOutcome(activePreview)
        opened == IF outcome = "openTextDocument" /\ activePreview # NoPreview
                  THEN source[activePreview] ELSE NoUri
    IN  /\ subscribed
        /\ last' = [Obs("showSource", activePreview, 0, opened, "", NoPreview, 0, {}, NoPreview)
                       EXCEPT !.outcome = outcome]
        /\ UNCHANGED <<previews, activePreview, focusFlag, subscribed, pstate, source,
                       column, request, activeTextEditor>>

\* ------------------------------------------------------------------ dispose
\* this._previews.forEach(ds => ds.dispose()): Array.prototype.forEach visits the
\* indices 0..len-1 of the length read before the loop, skipping an index that is
\* no longer in the array when its turn comes.
RECURSIVE forEachDispose(_, _, _)
forEachDispose(mp, k, len) ==
    IF k >= len THEN mp
    ELSE IF k < Len(mp.m.previews)
         THEN forEachDispose(previewDispose(mp, mp.m.previews[k + 1]), k + 1, len)
         ELSE forEachDispose(mp, k + 1, len)

Dispose ==
    LET r == forEachDispose([m |-> Mgr, pstate |-> pstate], 0, Len(previews))
    IN  /\ subscribed
        /\ subscribed' = FALSE
        /\ SetMgr(r.m)
        /\ pstate' = r.pstate
        /\ source' = Existing(pstate', source, NoUri)
        /\ column' = Existing(pstate', column, 0)
        /\ last' = Obs("dispose", NoPreview, 0, NoUri, "", NoPreview, 0, {}, NoPreview)
        /\ UNCHANGED <<request, activeTextEditor>>

\* ------------------------------------------------------------ specification
Next ==
    \/ \E u \in SvgUris, vc \in ViewColumns : ShowPreview(u, vc)
    \/ \E p \in Ids : CreateResolved(p)
    \/ \E p \in Ids : CreateRejected(p)
    \/ \E u \in SvgUris, c \in PanelColumnsOfHost : DeserializeWebviewPanel(u, c)
    \/ \E p \in Ids : ReviveResolved(p)
    \/ \E p \in Ids : ReviveRejected(p)
    \/ \E p \in Ids : PreviewDisposed(p)
    \/ \E p \in Ids : PreviewDisposedAgain(p)
    \/ \E p \in Ids, a \in BOOLEAN : ViewStateChanged(p, a)
    \/ \E u \in Uris : onDidChangeTextDocument(u)
    \/ \E ed \in Editors \cup {NoEditor}, auto \in BOOLEAN : onDidChangeActiveTextEditor(ed, auto)
    \/ ShowSource
    \/ Dispose

Spec == Init /\ [][Next]_vars

\* The promise of Preview.create settles: showPreview's continuation behind the
\* await runs once the promise is fulfilled, its rejection once it is rejected.
Settle(p) == CreateResolved(p) \/ CreateRejected(p)

\* The event loop runs the continuation of every settled promise.
Fairness == \A p \in Ids : WF_vars(Settle(p))

SpecFair == Spec /\ Fairness

\* ================================================================ claims

\* C1: in every reachable state the active preview is unset or is an element of
\* the tracked collection (no dangling focus).
C1_NoDanglingFocus ==
    activePreview = NoPreview \/ activePreview \in Range(previews)

\* C2: between handler invocations the svgPreviewFocus flag is true exactly when
\* the active preview is set.
C2_FlagIffActive ==
    focusFlag <=> (activePreview # NoPreview)

\* C2 witness: a panel has just reported itself active, the preview holds the focus
\* and the flag is published as true.
C2_Witness ==
    /\ last.op = "viewActive"
    /\ activePreview = last.preview
    /\ focusFlag

\* C3: the disposal of a tracked preview that is not the active preview leaves
\* the active preview and the focus flag as they were.
C3_DisposeKeepsOtherFocus ==
    [][(/\ last'.op = "previewDisposed"
        /\ last'.preview \in Range(previews)
        /\ last'.preview # activePreview)
       => (activePreview' = activePreview /\ focusFlag' = focusFlag)]_vars

\* C4: a second disposal notification of a preview that is no longer tracked
\* leaves the tracked collection as it is (no other preview is evicted).
C4_SecondDisposalNoOp ==
    [][(last'.op = "previewDisposedAgain" /\ last'.preview \notin Range(previews))
       => previews' = previews]_vars

C6_DisposeIsTotal ==
    [][last'.op = "dispose"
       => (~subscribed' /\ \A p \in Range(previews) : pstate'[p] = "disposed")]_vars

\* showPreview was called by the last handler: by a command, or by the auto-open
\* of the constructor or of the active-editor handler.
ShowPreviewCalled ==
    \/ last.op = "showPreview"
    \/ last.op \in {"construct", "editorChanged"} /\ last.telemetry = 1

\* C7: a showPreview call that follows a completed showPreview call for the same
\* target column, with no event in between, operates on the same preview and
\* starts no creation.
C7_SecondCallReuses ==
    [][(/\ \/ last.op = "showPreview" /\ last.preview # NoPreview
           \/ last.op = "createResolved"
        /\ last'.op = "showPreview"
        /\ last'.viewColumn = last.viewColumn)
       => (last'.preview = last.preview /\ last'.started = NoPreview)]_vars

\* The tracked previews the target-column rule of the claim selects for the
\* requested column vc: on the column of the active editor for the token Active,
\* on the column after it for every other token.
OnTarget(vc) ==
    {q \in Range(previews) :
        /\ activeTextEditor # NoEditor
        /\ column[q] = IF vc = Active
                       THEN activeTextEditor.viewColumn
                       ELSE activeTextEditor.viewColumn + 1}

\* C8: showPreview selects a tracked preview on the target column (the active
\* column for the token Active, the active column plus one for every other
\* token); when no tracked preview is on it, none is selected and a creation starts.
C8_TargetColumnLookup ==
    ShowPreviewCalled
    => IF OnTarget(last.viewColumn) # {}
       THEN last.preview \in OnTarget(last.viewColumn) /\ last.started = NoPreview
       ELSE last.preview = NoPreview /\ last.started # NoPreview

\* C8 witness: two previews are tracked, in adjacent columns, and a showPreview
\* for the column beside the active editor selected the one in that column.
C8_Witness ==
    /\ last.op = "showPreview"
    /\ last.viewColumn = Beside
    /\ Len(previews) = 2
    /\ column[previews[1]] # column[previews[2]]
    /\ last.preview # NoPreview
    /\ column[last.preview] = activeTextEditor.viewColumn + 1

\* C9: constructed with no active editor, the manager creates no preview, emits
\* no telemetry event and leaves the flag false; constructed on an editor with a
\* previewable document and auto-open enabled, it starts exactly one creation,
\* beside that editor, emits exactly one telemetry event, and the flag is true
\* once that preview is registered.
C9_ConstructionAutoOpen ==
    /\ (last.op = "construct" /\ activeTextEditor = NoEditor)
       => /\ previews = <<>>
          /\ \A p \in Ids : pstate[p] = "unborn"
          /\ last.started = NoPreview
          /\ last.telemetry = 0
          /\ ~focusFlag
    /\ (last.op = "construct" /\ activeTextEditor # NoEditor
            /\ isSvgUri(last.uri) /\ last.isAutoOpen)
       => /\ Cardinality({p \in Ids : pstate[p] = "creating"}) = 1
          /\ \A p \in Ids : pstate[p] = "creating"
                => /\ p = last.started
                   /\ source[p] = last.uri
                   /\ request[p].viewColumn = Beside
                   /\ column[p] = activeTextEditor.viewColumn + 1
          /\ last.telemetry = 1
    /\ (last.op = "createResolved" /\ last.who = "ctor")
       => /\ last.preview \in Range(previews)
          /\ activePreview = last.preview
          /\ focusFlag

\* C9 witness: the preview the constructor asked for has been registered, beside
\* the editor that was active at construction, and the flag is true.
C9_Witness ==
    /\ last.op = "createResolved"
    /\ last.who = "ctor"
    /\ last.viewColumn = Beside
    /\ last.preview \in Range(previews)
    /\ focusFlag

\* C10: when Preview.create or Preview.revive rejects, the preview is not
\* registered: neither the call's start nor the rejection changes the tracked
\* collection, the active preview or the flag.
C10_RejectionRegistersNothing ==
    [][/\ last'.op \in {"createRejected", "reviveRejected"}
          => /\ previews' = previews
             /\ activePreview' = activePreview
             /\ focusFlag' = focusFlag
             /\ last'.preview \notin Range(previews')
       /\ last'.started # NoPreview
          => /\ previews' = previews
             /\ activePreview' = activePreview
             /\ focusFlag' = focusFlag]_vars

\* C10 witness: a creation or revival has been rejected while another preview
\* is tracked and holds the focus; the failed one is not tracked.
C10_Witness ==
    /\ last.op \in {"createRejected", "reviveRejected"}
    /\ last.preview \notin Range(previews)
    /\ Len(previews) = 1
    /\ activePreview = previews[1]
    /\ focusFlag


\* C11 (as claimed): showSource with no active preview reaches the open-document
\* call and fails as that call's rejected promise.
C11_FailsDownstream ==
    (last.op = "showSource" /\ last.preview = NoPreview)
    => last.outcome = "openTextDocument"

\* C11 (amended): showSource with no active preview throws inside the manager,
\* before the open-document call is made, and leaves the tracked collection, the
\* active preview and the flag unchanged.
C11_ThrowsBeforeOpen ==
    [][(last'.op = "showSource" /\ activePreview = NoPreview)
       => /\ last'.outcome = "TypeError"
          /\ last'.uri = NoUri
          /\ previews' = previews
          /\ activePreview' = activePreview
          /\ focusFlag' = focusFlag]_vars

\* C11 witness: showSource has run while a preview is tracked and none is active.
C11_Witness ==
    /\ last.op = "showSource"
    /\ last.preview = NoPreview
    /\ last.outcome = "TypeError"
    /\ Len(previews) >= 1
    /\ ~focusFlag


\* C12 (as claimed): an active-editor event for a previewable document, with
\* auto-open enabled and no tracked preview on that document when the event
\* arrives, opens a new preview and emits one telemetry event, whatever other
\* previews are tracked.
C12_AutoOpenIndependent ==
    [][(/\ last'.op = "editorChanged"
        /\ isSvgUri(last'.uri)
        /\ last'.isAutoOpen
        /\ \A q \in Range(previews) : fsPath(source[q]) # fsPath(last'.uri))
       => (last'.started # NoPreview /\ last'.telemetry = 1)]_vars

\* C12 (amended): the auto-open step runs on what the broadcast step left.  For
\* a previewable document with auto-open enabled: when no preview is tracked, a
\* creation beside the editor starts and one telemetry event is emitted; when
\* previews are tracked and the document is not the active preview's source, the
\* broadcast makes them show the document and nothing is opened or logged.
C12_AutoOpenAfterBroadcast ==
    [][(/\ last'.op = "editorChanged"
        /\ isSvgUri(last'.uri)
        /\ last'.isAutoOpen)
       => /\ previews = <<>>
             => /\ last'.started # NoPreview
                /\ last'.telemetry = 1
                /\ pstate'[last'.started] = "creating"
                /\ source'[last'.started] = last'.uri
                /\ request'[last'.started].viewColumn = Beside
                /\ column'[last'.started] = activeTextEditor'.viewColumn + 1
          /\ (/\ previews # <<>>
              /\ ~(activePreview # NoPreview /\ source[activePreview] = last'.uri))
             => /\ last'.started = NoPreview
                /\ last'.telemetry = 0
                /\ last'.revealed = NoPreview
                /\ pstate' = pstate]_vars

\* C12 witness: the event arrived with auto-open enabled for a previewable
\* document while a preview was tracked; the preview was updated by the
\* broadcast and no preview was opened.
C12_Witness ==
    /\ last.op = "editorChanged"
    /\ isSvgUri(last.uri)
    /\ last.isAutoOpen
    /\ Len(previews) >= 1
    /\ last.updated = {<<q, last.uri>> : q \in Range(previews)}
    /\ last.started = NoPreview
    /\ last.telemetry = 0


\* The update calls of the broadcast step of the last active-editor event: all
\* update calls of the handler but the one showPreview makes on the preview it reveals.
BroadcastUpdates(o) ==
    IF o.revealed = NoPreview THEN o.updated
    ELSE o.updated \ {<<o.revealed, o.uri>>}

\* C13: on an active-editor event for a previewable document whose URI is not
\* the active preview's source, every tracked preview is updated with that URI
\* (and shows it afterwards); for a document that is not previewable, or whose
\* URI is the active preview's source, the broadcast step updates no preview.
C13_BroadcastUpdate ==
    [][last'.op = "editorChanged"
       => IF /\ isSvgUri(last'.uri)
             /\ ~(activePreview # NoPreview /\ source[activePreview] = last'.uri)
          THEN /\ {<<q, last'.uri>> : q \in Range(previews)} \subseteq last'.updated
               /\ \A q \in Range(previews) : source'[q] = last'.uri
               /\ \A u \in last'.updated : u[2] = last'.uri
          ELSE /\ BroadcastUpdates(last') = {}
               /\ \A q \in Ids : pstate[q] = "live" /\ q # last'.revealed
                     => source'[q] = source[q]]_vars

\* C13 witness: two previews are tracked and both were updated with the URI of
\* the newly active editor's document.
C13_Witness ==
    /\ last.op = "editorChanged"
    /\ Len(previews) = 2
    /\ last.updated = {<<previews[1], last.uri>>, <<previews[2], last.uri>>}
    /\ source[previews[1]] = last.uri
    /\ source[previews[2]] = last.uri


\* C14: a view-state notification of preview p with the panel active makes p
\* the active preview and the flag true; with the panel inactive it clears the
\* active preview and the flag, whichever preview held the focus before.
C14_ViewStateFocus ==
    [][/\ (last'.op = "viewActive")
          => (activePreview' = last'.preview /\ focusFlag')
       /\ (last'.op = "viewInactive")
          => (activePreview' = NoPreview /\ ~focusFlag')]_vars

\* C14 witness: of two tracked previews the first one reported inactive, and no
\* preview holds the focus although the second one is still tracked.
C14_Witness ==
    /\ last.op = "viewInactive"
    /\ Len(previews) = 2
    /\ last.preview = previews[1]
    /\ activePreview = NoPreview
    /\ ~focusFlag

\* C15: the registration of a created or revived preview p appends p as the last
\* element of the tracked collection and makes p the active preview with the flag
\* true, whichever preview held the focus before.
C15_RegistrationAppendsAndFocuses ==
    [][last'.op \in {"createResolved", "reviveResolved"}
       => /\ previews' = Append(previews, last'.preview)
          /\ activePreview' = last'.preview
          /\ focusFlag']_vars

\* C15 witness: a revived preview has been registered behind a tracked preview
\* and holds the focus.
C15_Witness ==
    /\ last.op = "reviveResolved"
    /\ Len(previews) = 2
    /\ previews[2] = last.preview
    /\ activePreview = last.preview
    /\ focusFlag

\* C16: a document-changed event updates, with no URI, the first tracked preview
\* whose source path is the document's path and no other preview; it updates
\* nothing when no tracked preview matches; it leaves the tracked collection, the
\* active preview, the flag and every source unchanged.
C16_DocumentChanged ==
    [][last'.op = "documentChanged"
       => LET M == {i \in 1..Len(previews) :
                       fsPath(source[previews[i]]) = fsPath(last'.uri)}
          IN  /\ IF M = {}
                 THEN last'.updated = {}
                 ELSE \E i \in M : /\ \A j \in M : i <= j
                                   /\ last'.updated = {<<previews[i], NoUri>>}
              /\ previews' = previews
              /\ activePreview' = activePreview
              /\ focusFlag' = focusFlag
              /\ source' = source]_vars

\* C16 witness: two tracked previews show the changed document and only the one
\* registered first was updated.
C16_Witness ==
    /\ last.op = "documentChanged"
    /\ Len(previews) = 2
    /\ fsPath(source[previews[1]]) = fsPath(last.uri)
    /\ fsPath(source[previews[2]]) = fsPath(last.uri)
    /\ last.updated = {<<previews[1], NoUri>>}

\* C16 (second case): the document changed while the preview asked for it was
\* still being created, and nothing was updated.
C16_WitnessPending ==
    /\ last.op = "documentChanged"
    /\ last.updated = {}
    /\ \E p \in Ids : pstate[p] = "creating" /\ source[p] = last.uri


\* C17: an active-editor-changed notification that carries no editor updates,
\* creates and reveals no preview, sends no telemetry and leaves the tracked
\* collection, the active preview and the flag unchanged.
C17_NoEditorIsNoOp ==
    [][(last'.op = "editorChanged" /\ activeTextEditor' = NoEditor)
       => /\ last'.updated = {}
          /\ last'.started = NoPreview
          /\ last'.revealed = NoPreview
          /\ last'.telemetry = 0
          /\ UNCHANGED <<previews, activePreview, focusFlag, pstate, source, column,
                         request, subscribed>>]_vars

\* C17 witness: the notification without an editor arrived while a preview was
\* tracked and focused, and the preview still holds the focus.
C17_Witness ==
    /\ last.op = "editorChanged"
    /\ activeTextEditor = NoEditor
    /\ Len(previews) >= 1
    /\ activePreview # NoPreview
    /\ focusFlag


\* C18: every creation started by showPreview ends either with the new preview
\* registered in the tracked collection or with the rejection of Preview.create,
\* whatever other events happen in between.
C18_CreationCompletes ==
    \A p \in Ids :
        (pstate[p] = "creating")
            ~> (p \in Range(previews) \/ (last.op = "createRejected" /\ last.preview = p))

\* C18 witness: a creation has completed and its preview is tracked although the
\* manager was disposed while the creation was pending.
C18_Witness ==
    /\ last.op = "createResolved"
    /\ last.preview \in Range(previews)
    /\ ~subscribed


\* C19: two showPreview requests for the same target column whose creations were
\* pending at the same time (their continuations run one directly after the
\* other) do not leave two tracked previews on that column.
C19_SingleTrackedPreview ==
    [][(/\ last.op = "createResolved"
        /\ last'.op = "createResolved"
        /\ last.viewColumn \in {Active, Beside}
        /\ last'.viewColumn = last.viewColumn
        /\ column[last'.preview] = column[last.preview]
        /\ activeTextEditor # NoEditor)
       => ~({last.preview, last'.preview} \subseteq Range(previews'))]_vars


\* C20: once the manager has been disposed no preview is added to the tracked
\* collection and the active preview is not set again.
C20_NothingAfterDispose ==
    [][~subscribed
       => /\ Range(previews') \subseteq Range(previews)
          /\ activePreview' # activePreview => activePreview' = NoPreview]_vars

====
